---- MODULE Spec2Model ----
(***************************************************************************)
(* The Gemini MCP server of src/src/index.ts as a state machine.           *)
(*                                                                         *)
(* The request handler is an async function: it runs without interruption  *)
(* up to an `await`, where it is suspended until the awaited promise       *)
(* settles, and other invocations of the handler may run meanwhile.  Each  *)
(* action below is one such uninterrupted stretch of the handler.          *)
(*                                                                         *)
(* Strings are sequences of tokens (a token is a TLA+ string), so that     *)
(* template literals and joins are concatenations.  The empty string is    *)
(* <<>>; the JavaScript value `undefined` is the reserved text Undefined.  *)
(***************************************************************************)
EXTENDS Integers, Sequences, FiniteSets, TLC

VARIABLES
    now,        \* the value Date.now() returns (milliseconds)
    sessions,   \* the Map `sessions`: conversation id -> reference of a session object
    heap,       \* the ConversationSession objects: reference -> fields
    calls,      \* the invocations of the CallTool handler, by slot
    sent,       \* the request this step hands to the remote API, if any
    out,        \* the response envelope this step returns, if any
    started,    \* the number of invocations begun so far
    ghost,      \* per slot, what an observer noted when the invocation began
    chain,      \* per stored id, the successful calls an observer saw on it
    issued,     \* the conversation ids returned to callers so far
    ev,         \* what this step was: which invocation began, resumed or returned
    proc        \* the process: loading the module, serving requests, or exited

vars == <<now, sessions, heap, calls, sent, out, started, ghost, chain, issued, ev, proc>>

(***************************** bounds **************************************)
MaxCalls == 2       \* invocations begun after the initial state

\* The clock is observed in these hours, at these milliseconds of each.
Hours == {0, 1}
Millis == {0, 1}
\* The random suffixes generateConversationId draws.
Rands == {0, 1}
\* Milliseconds Date.now() may advance between two reads of one synchronous stretch.
Drifts == {0}

Slots == {1, 2}

(************************** program constants ******************************)
OneHour == 60 * 60 * 1000
MODEL == <<"gemini-3-pro-preview">>
IMAGE_MODEL_FAST == <<"gemini-2.5-flash-image">>
IMAGE_MODEL_PRO == <<"gemini-3-pro-image-preview">>

Times == {h * OneHour + k : h \in Hours, k \in Millis}
Refs == 1..(MaxCalls + 1)
NoRef == 0

(***************************** JavaScript values ***************************)
Undefined == <<"<undefined>">>
EmptyString == <<>>

\* The truthiness of a string-or-undefined value.
Truthy(x) == x # Undefined /\ x # EmptyString

\* x || d
OrElse(x, d) == IF Truthy(x) THEN x ELSE d

\* parts.join(sep)
RECURSIVE Join(_, _)
Join(parts, sep) ==
    IF parts = <<>> THEN <<>>
    ELSE IF Len(parts) = 1 THEN parts[1]
    ELSE parts[1] \o sep \o Join(Tail(parts), sep)

\* Map operations
MapSet(m, k, v) == [x \in DOMAIN m \cup {k} |-> IF x = k THEN v ELSE m[x]]
MapHas(m, k) == k \in DOMAIN m

(***************************** cleanupSessions *****************************)
\* Mutants: a sweep that deletes nothing; a sweep that also deletes the session
\* used exactly one hour ago.
cleanupSessionsNever(sess, hp, t) == sess
cleanupSessionsInclusive(sess, hp, t) ==
    LET oneHourAgo == t - OneHour
        deleted == {id \in DOMAIN sess : hp[sess[id]].lastUsed <= oneHourAgo}
    IN  [id \in DOMAIN sess \ deleted |-> sess[id]]

\* The sessions that survive a sweep at clock value t.
cleanupSessions(sess, hp, t) ==
    LET oneHourAgo == t - OneHour
        deleted == {id \in DOMAIN sess : hp[sess[id]].lastUsed < oneHourAgo}
    IN  [id \in DOMAIN sess \ deleted |-> sess[id]]

(************************** generateConversationId *************************)
\* Mutant: the id has no random part.
generateConversationIdNoSuffix(t, r) == <<"gemini-", ToString(t), "-", "0">>

generateConversationId(t, r) == <<"gemini-", ToString(t), "-", ToString(r)>>

(************************** buildSystemInstruction *************************)
DefaultPersona ==
    <<"You are an expert software engineer assistant powered by Gemini 3 Pro Preview.", "\n",
      "You help with code review, analysis, planning, and problem-solving.", "\n",
      "Provide clear, concise, and actionable responses.", "\n",
      "When reviewing code or plans, be thorough but practical.">>

sandboxKeys == {<<"read-only">>, <<"workspace-write">>, <<"danger-full-access">>}

\* What a property lookup on an object literal finds when the key is not one
\* of its own: the property of Object.prototype of that name, given here by
\* the text the template literal renders it as, or undefined.
ObjectPrototype(k) ==
    IF k = <<"toString">> THEN <<"function toString() { [native code] }">>
    ELSE IF k = <<"constructor">> THEN <<"function Object() { [native code] }">>
    ELSE IF k = <<"__proto__">> THEN <<"[object Object]">>
    ELSE Undefined

\* sandboxDescriptions[k]
sandboxDescriptions(k) ==
    IF k = <<"read-only">>
    THEN <<"You are in read-only mode. You can analyze and review but cannot make changes.">>
    ELSE IF k = <<"workspace-write">>
    THEN <<"You can read and write within the workspace directory.">>
    ELSE IF k = <<"danger-full-access">>
    THEN <<"You have full access to read and write files.">>
    ELSE ObjectPrototype(k)

\* Mutants: a working-directory line even without cwd; the developer block
\* before the access level.
buildSystemInstructionAlwaysCwd(config) ==
    LET base == IF Truthy(config.baseInstructions)
                THEN <<config.baseInstructions>> ELSE <<DefaultPersona>>
        wd   == << <<"\n", "Working directory: ">> \o OrElse(config.cwd, <<".">>) >>
        sb   == IF Truthy(config.sandbox) /\ Truthy(sandboxDescriptions(config.sandbox))
                THEN << <<"\n", "Access level: ">> \o sandboxDescriptions(config.sandbox) >>
                ELSE <<>>
        dev  == IF Truthy(config.developerInstructions)
                THEN << <<"\n", "Developer Instructions:", "\n">> \o config.developerInstructions >>
                ELSE <<>>
    IN  Join(base \o wd \o sb \o dev, <<"\n">>)
buildSystemInstructionDevFirst(config) ==
    LET base == IF Truthy(config.baseInstructions)
                THEN <<config.baseInstructions>> ELSE <<DefaultPersona>>
        wd   == IF Truthy(config.cwd)
                THEN << <<"\n", "Working directory: ">> \o config.cwd >> ELSE <<>>
        sb   == IF Truthy(config.sandbox) /\ Truthy(sandboxDescriptions(config.sandbox))
                THEN << <<"\n", "Access level: ">> \o sandboxDescriptions(config.sandbox) >>
                ELSE <<>>
        dev  == IF Truthy(config.developerInstructions)
                THEN << <<"\n", "Developer Instructions:", "\n">> \o config.developerInstructions >>
                ELSE <<>>
    IN  Join(base \o wd \o dev \o sb, <<"\n">>)

buildSystemInstruction(config) ==
    LET base == IF Truthy(config.baseInstructions)
                THEN <<config.baseInstructions>> ELSE <<DefaultPersona>>
        wd   == IF Truthy(config.cwd)
                THEN << <<"\n", "Working directory: ">> \o config.cwd >> ELSE <<>>
        sb   == IF Truthy(config.sandbox) /\ Truthy(sandboxDescriptions(config.sandbox))
                THEN << <<"\n", "Access level: ">> \o sandboxDescriptions(config.sandbox) >>
                ELSE <<>>
        dev  == IF Truthy(config.developerInstructions)
                THEN << <<"\n", "Developer Instructions:", "\n">> \o config.developerInstructions >>
                ELSE <<>>
    IN  Join(base \o wd \o sb \o dev, <<"\n">>)

(******************************** callGemini *******************************)
UserContent(prompt) == [role |-> "user", parts |-> <<[text |-> prompt]>>]
ModelContent(text) == [role |-> "model", parts |-> <<[text |-> text]>>]

\* Mutant: the chat is created without the history passed in.
ChatRequestDropsHistory(prompt, history, systemInstruction) ==
    [kind |-> "chat", model |-> MODEL, systemInstruction |-> systemInstruction,
     history |-> <<>>, message |-> prompt]

\* The chat request callGemini issues before it suspends.
ChatRequest(prompt, history, systemInstruction) ==
    [kind |-> "chat", model |-> MODEL, systemInstruction |-> systemInstruction,
     history |-> history, message |-> prompt]

\* Mutants: the model turn is left out; the model turn comes first.
callGeminiUserOnly(prompt, history, responseText) ==
    [text    |-> OrElse(responseText, EmptyString),
     history |-> history \o <<UserContent(prompt)>>]
callGeminiModelFirst(prompt, history, responseText) ==
    [text    |-> OrElse(responseText, EmptyString),
     history |-> history \o <<ModelContent(OrElse(responseText, EmptyString)),
                              UserContent(prompt)>>]

\* What callGemini returns once sendMessage resolved with `responseText`.
callGemini(prompt, history, responseText) ==
    [text    |-> OrElse(responseText, EmptyString),
     history |-> history \o <<UserContent(prompt),
                              ModelContent(OrElse(responseText, EmptyString))>>]

(******************************* responses *********************************)
NoId == Undefined
NoRequest == [kind |-> "none"]
NoResponse == [content |-> <<>>, isError |-> FALSE, conversationId |-> NoId]

TextBlock(t) == [type |-> "text", text |-> t, data |-> Undefined, mimeType |-> Undefined]
ImageBlock(d, m) == [type |-> "image", text |-> Undefined, data |-> d, mimeType |-> m]

\* A thrown value: an Error object with a message, or any other value.
ErrorObject(m) == [instanceofError |-> TRUE, value |-> m]
Thrown(v) == [instanceofError |-> FALSE, value |-> v]

\* String(error)
String(e) == IF e.instanceofError THEN <<"Error: ">> \o e.value ELSE e.value

\* Mutant: the caught failure is returned without the error flag.
CaughtResponseUnflagged(e) ==
    LET errorMessage == IF e.instanceofError THEN e.value ELSE String(e)
    IN  [content |-> <<TextBlock(<<"Gemini API error: ">> \o errorMessage)>>,
         isError |-> FALSE, conversationId |-> NoId]

\* The catch block of the handler.
CaughtResponse(e) ==
    LET errorMessage == IF e.instanceofError THEN e.value ELSE String(e)
    IN  [content |-> <<TextBlock(<<"Gemini API error: ">> \o errorMessage)>>,
         isError |-> TRUE, conversationId |-> NoId]

NotFoundResponse(conversationId) ==
    [content |-> <<TextBlock(<<"Error: Conversation ">> \o conversationId
                     \o <<" not found. It may have expired or never existed.">>)>>,
     isError |-> TRUE, conversationId |-> NoId]

\* Mutant: the response does not name the tool.
UnknownToolResponseUnnamed(name) ==
    [content |-> <<TextBlock(<<"Unknown tool">>)>>,
     isError |-> TRUE, conversationId |-> NoId]

UnknownToolResponse(name) ==
    [content |-> <<TextBlock(<<"Unknown tool: ">> \o name)>>,
     isError |-> TRUE, conversationId |-> NoId]

ChatResponse(text, conversationId) ==
    [content |-> <<TextBlock(text)>>, isError |-> FALSE, conversationId |-> conversationId]

(****************************** image generation ***************************)
\* Image prompts are spelled character by character, so that toLowerCase and
\* includes act on them as they do on strings.
PRO_KEYWORDS ==
    <<<<"n", "a", "n", "o", " ", "b", "a", "n", "a", "n", "a", " ", "p", "r", "o">>,
      <<"n", "a", "n", "o", "b", "a", "n", "a", "n", "a", " ", "p", "r", "o">>,
      <<"p", "r", "o", " ", "m", "o", "d", "e", "l">>,
      <<"i", "n", "f", "o", "g", "r", "a", "p", "h", "i", "c">>,
      <<"d", "i", "a", "g", "r", "a", "m">>,
      <<"c", "h", "a", "r", "t">>,
      <<"g", "r", "a", "p", "h">>,
      <<"t", "e", "x", "t">>,
      <<"t", "y", "p", "o", "g", "r", "a", "p", "h", "y">>,
      <<"f", "o", "n", "t">>,
      <<"l", "e", "t", "t", "e", "r", "i", "n", "g">>,
      <<"w", "r", "i", "t", "i", "n", "g">>,
      <<"s", "l", "i", "d", "e">>,
      <<"p", "r", "e", "s", "e", "n", "t", "a", "t", "i", "o", "n">>,
      <<"d", "e", "c", "k">>,
      <<"l", "o", "g", "o">>,
      <<"b", "r", "a", "n", "d">>,
      <<"p", "o", "s", "t", "e", "r">>,
      <<"f", "l", "y", "e", "r">>,
      <<"b", "a", "n", "n", "e", "r">>,
      <<"d", "o", "c", "u", "m", "e", "n", "t">>,
      <<"p", "a", "g", "e">>,
      <<"l", "a", "y", "o", "u", "t">>,
      <<"h", "i", "g", "h", " ", "q", "u", "a", "l", "i", "t", "y">>,
      <<"h", "i", "g", "h", "-", "q", "u", "a", "l", "i", "t", "y">>,
      <<"h", "q">>,
      <<"4", "k">>,
      <<"d", "e", "t", "a", "i", "l", "e", "d", " ", "t", "e", "x", "t">>,
      <<"r", "e", "a", "d", "a", "b", "l", "e">>,
      <<"l", "e", "g", "i", "b", "l", "e">>>>

UpperCase == <<"A", "B", "C", "D", "E", "F", "G", "H", "I", "J", "K", "L", "M",
               "N", "O", "P", "Q", "R", "S", "T", "U", "V", "W", "X", "Y", "Z">>
LowerCase == <<"a", "b", "c", "d", "e", "f", "g", "h", "i", "j", "k", "l", "m",
               "n", "o", "p", "q", "r", "s", "t", "u", "v", "w", "x", "y", "z">>

\* prompt.toLowerCase()
toLowerCase(str) ==
    [i \in 1..Len(str) |->
        IF \E k \in 1..Len(UpperCase) : UpperCase[k] = str[i]
        THEN LowerCase[CHOOSE k \in 1..Len(UpperCase) : UpperCase[k] = str[i]]
        ELSE str[i]]

\* str.includes(sub)
includes(str, sub) ==
    \E i \in 0..(Len(str) - Len(sub)) : SubSeq(str, i + 1, i + Len(sub)) = sub

shouldUsePro(prompt) ==
    LET lower == toLowerCase(prompt)
    IN  \E k \in 1..Len(PRO_KEYWORDS) : includes(lower, PRO_KEYWORDS[k])

\* Optional numbers and booleans: {} is undefined, {v} is the value v.
NumberOr(x, d) == IF x = {} \/ x = {0} THEN d ELSE CHOOSE v \in x : TRUE
BoolOr(x, d) == IF x = {} \/ x = {FALSE} THEN d ELSE TRUE
BoolNullish(x, d) == IF x = {} THEN d ELSE CHOOSE v \in x : TRUE

\* Mutant: a keyword in the prompt selects Pro whatever options.usePro says.
generateImageRequestKeywordWins(prompt, options) ==
    LET numberOfImages == NumberOr(options.numberOfImages, 1)
        aspectRatio == OrElse(options.aspectRatio, <<"1:1">>)
        usePro == BoolNullish(options.usePro, FALSE) \/ shouldUsePro(prompt)
        model == IF usePro THEN IMAGE_MODEL_PRO ELSE IMAGE_MODEL_FAST
    IN  [kind |-> "image", model |-> model, prompt |-> prompt,
         numberOfImages |-> numberOfImages, aspectRatio |-> aspectRatio]

\* generateImage up to its await: the request it issues.  `options` is what
\* the caller passes.
generateImageRequest(prompt, options) ==
    LET numberOfImages == NumberOr(options.numberOfImages, 1)
        aspectRatio == OrElse(options.aspectRatio, <<"1:1">>)
        usePro == BoolNullish(options.usePro, shouldUsePro(prompt))
        model == IF usePro THEN IMAGE_MODEL_PRO ELSE IMAGE_MODEL_FAST
    IN  [kind |-> "image", model |-> model, prompt |-> prompt,
         numberOfImages |-> numberOfImages, aspectRatio |-> aspectRatio]

\* Mutant: entries without image bytes are kept.
RECURSIVE generatedImagesUnfiltered(_)
generatedImagesUnfiltered(list) ==
    IF list = Undefined \/ list = <<>> THEN <<>>
    ELSE <<[base64 |-> Head(list), mimeType |-> <<"image/png">>]>>
         \o generatedImagesUnfiltered(Tail(list))

\* generateImage after its await: the images it keeps of response.generatedImages.
RECURSIVE generatedImages(_)
generatedImages(list) ==
    IF list = Undefined \/ list = <<>> THEN <<>>
    ELSE (IF Truthy(Head(list))
          THEN <<[base64 |-> Head(list), mimeType |-> <<"image/png">>]>> ELSE <<>>)
         \o generatedImages(Tail(list))

\* The options object the handler passes to generateImage.
ImageOptions(args) ==
    [numberOfImages |-> {NumberOr(args.numberOfImages, 1)},
     aspectRatio |-> OrElse(args.aspectRatio, <<"1:1">>),
     usePro |-> {BoolOr(args.usePro, FALSE)}]

\* prompt.slice(0, 50).replace(/[^a-zA-Z0-9]/g, "_")
Digits == <<"0", "1", "2", "3", "4", "5", "6", "7", "8", "9">>
IsAlnum(ch) ==
    \/ \E k \in 1..Len(UpperCase) : UpperCase[k] = ch \/ LowerCase[k] = ch
    \/ \E k \in 1..Len(Digits) : Digits[k] = ch
safePrompt(prompt) ==
    LET cut == SubSeq(prompt, 1, IF Len(prompt) < 50 THEN Len(prompt) ELSE 50)
    IN  [i \in 1..Len(cut) |-> IF IsAlnum(cut[i]) THEN cut[i] ELSE "_"]

\* The paths the handler writes the images to: path.join(outputPath, filename).
savedPaths(outputPath, prompt, n) ==
    [i \in 1..n |-> outputPath \o <<"/">> \o safePrompt(prompt) \o <<"_", ToString(i), ".png">>]

RECURSIVE ImageBlocks(_)
ImageBlocks(images) ==
    IF images = <<>> THEN <<>>
    ELSE <<ImageBlock(Head(images).base64, Head(images).mimeType)>> \o ImageBlocks(Tail(images))

ImageResponse(images, model, prompt, paths) ==
    LET saved == IF Len(paths) > 0
                 THEN <<"\n", "\n", "Saved to:", "\n">> \o Join(paths, <<"\n">>)
                 ELSE EmptyString
        summary == <<"Generated ", ToString(Len(images)), " image(s) using ">> \o model
                   \o <<" for prompt: ", "\"">> \o prompt \o <<"\"">> \o saved
    IN  [content |-> <<TextBlock(summary)>> \o ImageBlocks(images),
         isError |-> FALSE, conversationId |-> NoId]

(***************************** inputs **************************************)
Prompts == {<<"hello">>, <<"again">>}
\* response.text of a resolved sendMessage
ResponseTexts == {<<"hi">>, Undefined}
\* what a rejected remote call throws
Failures == {ErrorObject(<<"quota exceeded">>), Thrown(<<"network down">>)}
\* argument bags of the gemini tool
GeminiArgs ==
    {[prompt |-> p, cwd |-> c, sandbox |-> Undefined, baseInstructions |-> Undefined,
      developerInstructions |-> Undefined, model |-> Undefined]
        : p \in Prompts, c \in {Undefined}}
    \cup
    {[prompt |-> <<"hello">>, cwd |-> <<"/work">>, sandbox |-> <<"read-only">>,
      baseInstructions |-> <<"Be brief.">>, developerInstructions |-> <<"Use tabs.">>,
      model |-> <<"gemini-2.5-flash">>]}
\* argument bags of the gemini tool over every kind of instruction field:
\* absent, empty, given; for sandbox the three values of the schema and
\* other strings
Sandboxes ==
    {Undefined, EmptyString, <<"read-only">>, <<"workspace-write">>,
     <<"danger-full-access">>, <<"bogus">>, <<"toString">>, <<"constructor">>}
GeminiArgsWide ==
    {[prompt |-> <<"hello">>, cwd |-> c, sandbox |-> sb, baseInstructions |-> b,
      developerInstructions |-> d, model |-> Undefined]
        : c \in {Undefined, EmptyString, <<"/work">>},
          sb \in Sandboxes,
          b \in {Undefined, <<"Be brief.">>},
          d \in {Undefined, <<"Use tabs.">>}}
\* conversation ids a caller may pass: an id it was given, or another string
ConversationIds == issued \cup {<<"no-such-id">>}
\* tool names the handler does not dispatch
OtherTools == {<<"gemini-video-generate">>, <<"gemini-video-check">>, <<"nope">>}
\* argument bags of the gemini-image tool
ImageArgs ==
    {[prompt |-> <<"a", " ", "c", "u", "t", "e", " ", "c", "a", "t">>, numberOfImages |-> {}, aspectRatio |-> Undefined,
      usePro |-> {}, outputPath |-> o] : o \in {Undefined, <<"/out">>}}
\* argument bags of the gemini-image tool for the study of its options: a
\* prompt without and one with a PRO_KEYWORDS entry ("infographic", in capitals
\* in part), every kind of numberOfImages and usePro
ImagePrompts ==
    {<<"a", " ", "c", "u", "t", "e", " ", "c", "a", "t">>,
     <<"A", "n", " ", "I", "n", "f", "o", "G", "r", "a", "p", "h", "i", "c">>}
ImageCounts == {{}, {0}, {-1}, {1}, {4}, {5}}
ImageArgsWide ==
    [prompt : ImagePrompts, numberOfImages : ImageCounts,
     aspectRatio : {Undefined, <<"16:9">>}, usePro : {{}, {TRUE}, {FALSE}},
     outputPath : {Undefined, <<"/out">>}]
\* response.generatedImages of a resolved generateImages: a list of imageBytes
\* (Undefined where an entry carries none), or Undefined
ImageResults == {Undefined, << <<"png1">>, Undefined, <<"png2">> >>}

(***************************** state ***************************************)
Idle ==
    [pc |-> "idle", name |-> EmptyString, prompt |-> EmptyString, conversationId |-> NoId,
     cwd |-> Undefined, session |-> NoRef, history |-> <<>>,
     outputPath |-> Undefined,
     result |-> [images |-> <<>>, model |-> EmptyString]]

NoSession == [history |-> <<>>, createdAt |-> -1, lastUsed |-> -1, cwd |-> Undefined]
NoNote == [idsAtSweep |-> {}, session0 |-> NoSession, overlapped |-> FALSE, follows |-> FALSE]

\* kind: "begin" (the invocation began and is suspended on its remote call),
\* "whole" (it began and returned in one stretch), "resume" (it resumed and is
\* suspended again), "end" (it resumed and returned), "tick", "none".
\* settled: how the awaited call it resumed from ended, "resolved" or "rejected".
\* args: the arguments of the request, on the step that begins a gemini or a
\* gemini-image invocation.  received: response.generatedImages, on the step
\* that resumes a gemini-image invocation from generateImages; the random
\* suffix drawn, on the step that creates a session.
NoArgs == Undefined
Event(kind, s, name, conversationId, prompt, overlapped, settled) ==
    [kind |-> kind, slot |-> s, name |-> name, conversationId |-> conversationId,
     prompt |-> prompt, overlapped |-> overlapped, settled |-> settled,
     args |-> NoArgs, received |-> Undefined]
NoEvent == Event("none", 0, EmptyString, NoId, EmptyString, FALSE, "none")
TickEvent == Event("tick", 0, EmptyString, NoId, EmptyString, FALSE, "none")

InFlight(c) == {s \in Slots : c[s].pc # "idle"}

\* Objects no map entry and no suspended invocation refers to are garbage.
Reachable(sess, cl) ==
    {sess[id] : id \in DOMAIN sess} \cup {cl[s].session : s \in Slots}
Collect(hp, sess, cl) == [r \in DOMAIN hp \cap Reachable(sess, cl) |-> hp[r]]

NewRef(hp) == CHOOSE r \in Refs \ DOMAIN hp : \A q \in Refs \ DOMAIN hp : r <= q

\* Mutant: the session is stored with the history passed to callGemini.
NewSessionInputHistory(history, createdAt, lastUsed, cwd) ==
    [history |-> <<>>, createdAt |-> createdAt, lastUsed |-> lastUsed, cwd |-> cwd]

\* Mutant: the working directory is not stored.
NewSessionNoCwd(history, createdAt, lastUsed, cwd) ==
    [history |-> history, createdAt |-> createdAt, lastUsed |-> lastUsed, cwd |-> Undefined]

\* The session object the gemini branch stores.
NewSession(history, createdAt, lastUsed, cwd) ==
    [history |-> history, createdAt |-> createdAt, lastUsed |-> lastUsed, cwd |-> cwd]

\* The process while index.ts is being loaded, while the server runs, and
\* after process.exit(status).
Starting(env) == [state |-> "starting", env |-> env]
Serving(key) == [state |-> "serving", API_KEY |-> key]
Exited(status) == [state |-> "exited", status |-> status]
\* process.env as far as index.ts reads it
Environments ==
    [GEMINI_API_KEY : {Undefined, EmptyString, <<"key">>},
     GOOGLE_API_KEY : {Undefined, <<"key">>}]
\* const API_KEY = process.env.GEMINI_API_KEY || process.env.GOOGLE_API_KEY
API_KEY(env) == OrElse(env.GEMINI_API_KEY, env.GOOGLE_API_KEY)

\* A freshly started server.
InitEmpty ==
    /\ proc = Serving(<<"key">>)
    /\ now = 0
    /\ sessions = <<>>
    /\ heap = <<>>
    /\ calls = [s \in Slots |-> Idle]
    /\ sent = NoRequest
    /\ out = NoResponse
    /\ started = 0
    /\ ghost = [s \in Slots |-> NoNote]
    /\ chain = <<>>
    /\ issued = {}
    /\ ev = NoEvent

\* A server that has answered one gemini call, "hello" -> "hi", at time 0.
SeedId == generateConversationId(0, 0)
SeedResult == callGemini(<<"hello">>, <<>>, <<"hi">>)
InitSeeded ==
    /\ proc = Serving(<<"key">>)
    /\ now = 0
    /\ sessions = MapSet(<<>>, SeedId, NewRef(<<>>))
    /\ heap = MapSet(<<>>, NewRef(<<>>), NewSession(SeedResult.history, 0, 0, Undefined))
    /\ calls = [s \in Slots |-> Idle]
    /\ sent = NoRequest
    /\ out = ChatResponse(SeedResult.text, SeedId)
    /\ started = 0
    /\ ghost = [s \in Slots |-> NoNote]
    /\ chain = MapSet(<<>>, SeedId,
            [turns |-> << <<(<<"hello">>), SeedResult.text>> >>,
             inOrder |-> TRUE, repliedAt |-> -1])
    /\ issued = {SeedId}
    /\ ev = NoEvent

\* The process at the top of index.ts, before the credential is read.
InitStarting ==
    /\ \E env \in Environments : proc = Starting(env)
    /\ now = 0
    /\ sessions = <<>>
    /\ heap = <<>>
    /\ calls = [s \in Slots |-> Idle]
    /\ sent = NoRequest
    /\ out = NoResponse
    /\ started = 0
    /\ ghost = [s \in Slots |-> NoNote]
    /\ chain = <<>>
    /\ issued = {}
    /\ ev = NoEvent

Init == InitEmpty \/ InitSeeded \/ InitStarting

\* Mutant: the server starts whether or not a credential is present.
StartUnchecked ==
    /\ proc.state = "starting"
    /\ proc' = Serving(API_KEY(proc.env))
    /\ sent' = NoRequest
    /\ out' = NoResponse
    /\ ev' = NoEvent
    /\ UNCHANGED <<now, sessions, heap, calls, started, ghost, chain, issued>>

\* The module is loaded: without a credential the process exits with status
\* 1, otherwise the client and the server are created and requests are served.
Start ==
    /\ proc.state = "starting"
    /\ proc' = IF ~Truthy(API_KEY(proc.env)) THEN Exited(1)
               ELSE Serving(API_KEY(proc.env))
    /\ sent' = NoRequest
    /\ out' = NoResponse
    /\ ev' = NoEvent
    /\ UNCHANGED <<now, sessions, heap, calls, started, ghost, chain, issued>>

\* Time passes between two steps of the server.
Tick ==
    /\ proc.state = "serving"
    /\ \E t \in Times : t > now /\ now' = t
    /\ sent' = NoRequest
    /\ out' = NoResponse
    /\ ev' = TickEvent
    /\ UNCHANGED <<sessions, heap, calls, started, ghost, chain, issued, proc>>

(***************************** ghost bookkeeping ***************************)
IsReplyOn(c, id) == c.pc = "reply" /\ c.conversationId = id

\* The observer's notes when slot s begins an invocation whose sweep leaves
\* `swept`: every invocation in flight now overlaps another one, and a reply
\* whose id the sweep removed no longer continues that id's chain.
Begin(s, note, swept) ==
    [x \in Slots |->
        IF x = s THEN [note EXCEPT !.idsAtSweep = DOMAIN swept,
                                   !.overlapped = InFlight(calls) # {}]
        ELSE IF x \in InFlight(calls)
        THEN [ghost[x] EXCEPT !.overlapped = TRUE,
                              !.follows = @ /\ calls[x].conversationId \in DOMAIN swept]
        ELSE ghost[x]]

\* The notes once slot s has returned its response.
End(g, s) == [g EXCEPT ![s] = NoNote]

\* The chain of an id ends when the sweep removes the id.
ChainSwept(swept) == [id \in DOMAIN chain \cap DOMAIN swept |-> chain[id]]

(***************************** the handler *********************************)
\* Every invocation begins with cleanupSessions(), at the current clock value.
Sweep == cleanupSessions(sessions, heap, now)

\* Invocations are anonymous: a new one takes the first free slot.
CanBegin(s) ==
    /\ proc.state = "serving"
    /\ calls[s].pc = "idle"
    /\ \A x \in Slots : x < s => calls[x].pc # "idle"
    /\ started < MaxCalls

Began(s) == Event("begin", s, calls'[s].name, calls'[s].conversationId, calls'[s].prompt,
                  InFlight(calls) # {}, "none")
Whole(s, name, conversationId, prompt) ==
    Event("whole", s, name, conversationId, prompt, InFlight(calls) # {}, "none")
Resumed(s) == Event("resume", s, calls[s].name, calls[s].conversationId, calls[s].prompt,
                    ghost[s].overlapped, "resolved")
Ended(s, settled) ==
    Event("end", s, calls[s].name, calls[s].conversationId, calls[s].prompt,
          ghost[s].overlapped, settled)

\* name === "gemini", up to the await of callGemini.
Gemini(s, args) ==
    /\ CanBegin(s)
    /\ LET systemInstruction ==
                buildSystemInstruction([cwd |-> args.cwd, sandbox |-> args.sandbox,
                    baseInstructions |-> args.baseInstructions,
                    developerInstructions |-> args.developerInstructions])
        IN  /\ calls' = [calls EXCEPT ![s] =
                    [Idle EXCEPT !.pc = "gemini", !.name = <<"gemini">>,
                                 !.prompt = args.prompt, !.cwd = args.cwd]]
            /\ sent' = ChatRequest(args.prompt, <<>>, systemInstruction)
            /\ ev' = [Began(s) EXCEPT !.args = args]
    /\ sessions' = Sweep
    /\ heap' = Collect(heap, sessions', calls')
    /\ out' = NoResponse
    /\ started' = started + 1
    /\ ghost' = Begin(s, NoNote, Sweep)
    /\ chain' = ChainSwept(Sweep)
    /\ UNCHANGED <<now, issued, proc>>

CallGemini(s) == \E args \in GeminiArgs : Gemini(s, args)

\* callGemini resolved: the gemini branch from `const result` to its return.
\* Date.now() is read three times (the id, createdAt, lastUsed).
GeminiResolved(s, drifts) ==
    /\ calls[s].pc = "gemini"
    /\ \E responseText \in ResponseTexts, r \in Rands, t1 \in Times, t2 \in Times :
        /\ t1 - now \in drifts /\ t2 - t1 \in drifts
        /\ LET result == callGemini(calls[s].prompt, <<>>, responseText)
               conversationId == generateConversationId(now, r)
               ref == NewRef(heap)
               stored == MapSet(heap, ref,
                            NewSession(result.history, t1, t2, calls[s].cwd))
           IN  /\ sessions' = MapSet(sessions, conversationId, ref)
               /\ calls' = [calls EXCEPT ![s] = Idle]
               /\ heap' = Collect(stored, sessions', calls')
               /\ now' = t2
               /\ issued' = issued \cup {conversationId}
               /\ ev' = [Ended(s, "resolved") EXCEPT !.received = r]
               /\ out' = ChatResponse(result.text, conversationId)
               /\ ghost' = [x \in Slots |->
                    IF x = s THEN NoNote
                    ELSE IF IsReplyOn(calls[x], conversationId)
                    THEN [ghost[x] EXCEPT !.follows = FALSE]
                    ELSE ghost[x]]
               /\ chain' = MapSet(chain, conversationId,
                    [turns |-> << <<calls[s].prompt, result.text>> >>,
                     inOrder |-> TRUE, repliedAt |-> -1])
    /\ sent' = NoRequest
    /\ UNCHANGED <<started, proc>>

GeminiResolve(s) == GeminiResolved(s, Drifts)

\* Mutant: a failure abandons every pending invocation.
CaughtAbandonsAll(s, pc) ==
    /\ calls[s].pc = pc
    /\ \E error \in Failures : out' = CaughtResponse(error)
    /\ calls' = [x \in Slots |-> Idle]
    /\ heap' = Collect(heap, sessions, calls')
    /\ sent' = NoRequest
    /\ ghost' = [x \in Slots |-> NoNote]
    /\ ev' = Ended(s, "rejected")
    /\ UNCHANGED <<now, sessions, started, chain, issued, proc>>

\* A rejected remote call of any branch: the catch block.
Caught(s, pc) ==
    /\ calls[s].pc = pc
    /\ \E error \in Failures : out' = CaughtResponse(error)
    /\ calls' = [calls EXCEPT ![s] = Idle]
    /\ heap' = Collect(heap, sessions, calls')
    /\ sent' = NoRequest
    /\ ghost' = End(ghost, s)
    /\ ev' = Ended(s, "rejected")
    /\ UNCHANGED <<now, sessions, started, chain, issued, proc>>

\* Mutant: the session is created before the remote call is known to have succeeded.
GeminiRejectStores(s) ==
    /\ calls[s].pc = "gemini"
    /\ \E error \in Failures : out' = CaughtResponse(error)
    /\ LET conversationId == generateConversationId(now, 0)
           ref == NewRef(heap)
           stored == MapSet(heap, ref,
                        NewSession(<<UserContent(calls[s].prompt),
                                     ModelContent(EmptyString)>>, now, now, calls[s].cwd))
       IN  /\ sessions' = MapSet(sessions, conversationId, ref)
           /\ calls' = [calls EXCEPT ![s] = Idle]
           /\ heap' = Collect(stored, sessions', calls')
           /\ chain' = MapSet(chain, conversationId,
                    [turns |-> <<>>, inOrder |-> FALSE, repliedAt |-> -1])
    /\ sent' = NoRequest
    /\ ghost' = End(ghost, s)
    /\ ev' = Ended(s, "rejected")
    /\ UNCHANGED <<now, started, issued, proc>>

GeminiReject(s) == Caught(s, "gemini")

\* name === "gemini-reply", up to the return of the not-found error or the
\* await of callGemini.
CallGeminiReply(s) ==
    /\ CanBegin(s)
    /\ \E conversationId \in ConversationIds, prompt \in Prompts :
        IF ~MapHas(Sweep, conversationId)
        THEN /\ out' = NotFoundResponse(conversationId)
             /\ sent' = NoRequest
             /\ calls' = calls
             /\ ghost' = End(Begin(s, NoNote, Sweep), s)
             /\ ev' = Whole(s, <<"gemini-reply">>, conversationId, prompt)
        ELSE LET session == Sweep[conversationId]
                 systemInstruction ==
                    buildSystemInstruction([cwd |-> heap[session].cwd,
                        sandbox |-> Undefined, baseInstructions |-> Undefined,
                        developerInstructions |-> Undefined])
             IN  /\ out' = NoResponse
                 /\ sent' = ChatRequest(prompt, heap[session].history, systemInstruction)
                 /\ calls' = [calls EXCEPT ![s] =
                        [Idle EXCEPT !.pc = "reply", !.name = <<"gemini-reply">>,
                                     !.prompt = prompt, !.conversationId = conversationId,
                                     !.session = session,
                                     !.history = heap[session].history]]
                 /\ ghost' = Begin(s,
                        [NoNote EXCEPT !.session0 = heap[session],
                            !.follows = /\ conversationId \in DOMAIN chain
                                        /\ \A x \in Slots :
                                              ~IsReplyOn(calls[x], conversationId)],
                        Sweep)
                 /\ ev' = Began(s)
    /\ sessions' = Sweep
    /\ heap' = Collect(heap, sessions', calls')
    /\ started' = started + 1
    /\ chain' = ChainSwept(Sweep)
    /\ UNCHANGED <<now, issued, proc>>

\* Mutants: the history is not assigned; lastUsed is not assigned.
UpdateSessionKeepsHistory(session, history, t) == [session EXCEPT !.lastUsed = t]
UpdateSessionKeepsLastUsed(session, history, t) == [session EXCEPT !.history = history]

\* The assignments of the gemini-reply branch to the session object it holds.
UpdateSession(session, history, t) ==
    [session EXCEPT !.history = history, !.lastUsed = t]

\* Mutant: the reply puts its session object back into the Map.
ReplyResolveRevives(s) ==
    /\ calls[s].pc = "reply"
    /\ \E responseText \in ResponseTexts :
        LET result == callGemini(calls[s].prompt, calls[s].history, responseText)
            session == calls[s].session
            conversationId == calls[s].conversationId
            updated == [heap EXCEPT ![session] = UpdateSession(@, result.history, now)]
        IN  /\ calls' = [calls EXCEPT ![s] = Idle]
            /\ sessions' = MapSet(sessions, conversationId, session)
            /\ heap' = Collect(updated, sessions', calls')
            /\ out' = ChatResponse(result.text, conversationId)
            /\ chain' = MapSet(chain, conversationId,
                    [turns |-> <<>>, inOrder |-> FALSE, repliedAt |-> now])
    /\ sent' = NoRequest
    /\ ghost' = End(ghost, s)
    /\ ev' = Ended(s, "resolved")
    /\ UNCHANGED <<now, started, issued, proc>>

\* callGemini resolved: the gemini-reply branch from `const result` to its return.
ReplyResolve(s) ==
    /\ calls[s].pc = "reply"
    /\ \E responseText \in ResponseTexts :
        LET result == callGemini(calls[s].prompt, calls[s].history, responseText)
            session == calls[s].session
            conversationId == calls[s].conversationId
            updated == [heap EXCEPT ![session] = UpdateSession(@, result.history, now)]
            live == MapHas(sessions, conversationId) /\ sessions[conversationId] = session
        IN  /\ calls' = [calls EXCEPT ![s] = Idle]
            /\ heap' = Collect(updated, sessions, calls')
            /\ out' = ChatResponse(result.text, conversationId)
            /\ chain' =
                IF conversationId \notin DOMAIN chain THEN chain
                ELSE IF ghost[s].follows
                THEN [chain EXCEPT ![conversationId] =
                        [turns |-> Append(@.turns, <<calls[s].prompt, result.text>>),
                         inOrder |-> @.inOrder,
                         repliedAt |-> IF live THEN now ELSE @.repliedAt]]
                ELSE [chain EXCEPT ![conversationId] =
                        [turns |-> @.turns, inOrder |-> FALSE,
                         repliedAt |-> IF live THEN now ELSE @.repliedAt]]
    /\ sent' = NoRequest
    /\ ghost' = End(ghost, s)
    /\ ev' = Ended(s, "resolved")
    /\ UNCHANGED <<now, sessions, started, issued, proc>>

\* Mutant: lastUsed is refreshed although the remote call failed.
ReplyRejectTouches(s) ==
    /\ calls[s].pc = "reply"
    /\ \E error \in Failures : out' = CaughtResponse(error)
    /\ calls' = [calls EXCEPT ![s] = Idle]
    /\ heap' = Collect([heap EXCEPT ![calls[s].session].lastUsed = now], sessions, calls')
    /\ sent' = NoRequest
    /\ ghost' = End(ghost, s)
    /\ ev' = Ended(s, "rejected")
    /\ UNCHANGED <<now, sessions, started, chain, issued, proc>>

ReplyReject(s) == Caught(s, "reply")

\* name === "gemini-image" with arguments `args`, up to the await in generateImage.
GeminiImage(s, args) ==
    /\ CanBegin(s)
    /\ LET request == generateImageRequest(args.prompt, ImageOptions(args))
       IN  /\ sent' = request
           /\ calls' = [calls EXCEPT ![s] =
                    [Idle EXCEPT !.pc = "image", !.name = <<"gemini-image">>,
                                 !.prompt = args.prompt, !.outputPath = args.outputPath,
                                 !.result = [images |-> <<>>, model |-> request.model]]]
           /\ ev' = [Began(s) EXCEPT !.args = args]
    /\ sessions' = Sweep
    /\ heap' = Collect(heap, sessions', calls')
    /\ out' = NoResponse
    /\ started' = started + 1
    /\ ghost' = Begin(s, NoNote, Sweep)
    /\ chain' = ChainSwept(Sweep)
    /\ UNCHANGED <<now, issued, proc>>

CallGeminiImage(s) == \E args \in ImageArgs : GeminiImage(s, args)

\* generateImages resolved: the gemini-image branch up to its return, or up to
\* the await of the dynamic imports when the images are to be saved.
ImageResolve(s) ==
    /\ calls[s].pc = "image"
    /\ \E list \in ImageResults :
        LET images == generatedImages(list)
            model == calls[s].result.model
        IN  IF Truthy(calls[s].outputPath) /\ Len(images) > 0
            THEN /\ calls' = [calls EXCEPT ![s].pc = "import",
                                           ![s].result = [images |-> images, model |-> model]]
                 /\ out' = NoResponse
                 /\ ghost' = ghost
                 /\ ev' = [Resumed(s) EXCEPT !.received = list]
            ELSE /\ calls' = [calls EXCEPT ![s] = Idle]
                 /\ out' = ImageResponse(images, model, calls[s].prompt, <<>>)
                 /\ ghost' = End(ghost, s)
                 /\ ev' = [Ended(s, "resolved") EXCEPT !.received = list]
    /\ sent' = NoRequest
    /\ UNCHANGED <<now, sessions, heap, started, chain, issued, proc>>

ImageReject(s) == Caught(s, "image")

\* The imports resolved and the file system calls returned: the gemini-image
\* branch from the directory check to its return.
ImageSave(s) ==
    /\ calls[s].pc = "import"
    /\ LET images == calls[s].result.images
           paths == savedPaths(calls[s].outputPath, calls[s].prompt, Len(images))
       IN  out' = ImageResponse(images, calls[s].result.model, calls[s].prompt, paths)
    /\ calls' = [calls EXCEPT ![s] = Idle]
    /\ sent' = NoRequest
    /\ ghost' = End(ghost, s)
    /\ ev' = Ended(s, "resolved")
    /\ UNCHANGED <<now, sessions, heap, started, chain, issued, proc>>

\* A file system call threw: the catch block.
ImageSaveReject(s) == Caught(s, "import")

\* Mutant: the sweep runs in the dispatched branches only.
CallUnknownNoSweep(s) ==
    /\ CanBegin(s)
    /\ \E name \in OtherTools :
        /\ out' = UnknownToolResponse(name)
        /\ ev' = Whole(s, name, NoId, EmptyString)
    /\ sent' = NoRequest
    /\ started' = started + 1
    /\ ghost' = End(Begin(s, NoNote, sessions), s)
    /\ UNCHANGED <<now, sessions, heap, calls, chain, issued, proc>>

\* Any other tool name.
CallUnknown(s) ==
    /\ CanBegin(s)
    /\ \E name \in OtherTools :
        /\ out' = UnknownToolResponse(name)
        /\ ev' = Whole(s, name, NoId, EmptyString)
    /\ sessions' = Sweep
    /\ calls' = calls
    /\ heap' = Collect(heap, sessions', calls')
    /\ sent' = NoRequest
    /\ started' = started + 1
    /\ ghost' = End(Begin(s, NoNote, Sweep), s)
    /\ chain' = ChainSwept(Sweep)
    /\ UNCHANGED <<now, issued, proc>>

Next ==
    \/ Start
    \/ Tick
    \/ \E s \in Slots : CallGemini(s)
    \/ \E s \in Slots : GeminiResolve(s)
    \/ \E s \in Slots : GeminiReject(s)
    \/ \E s \in Slots : CallGeminiReply(s)
    \/ \E s \in Slots : ReplyResolve(s)
    \/ \E s \in Slots : ReplyReject(s)
    \/ \E s \in Slots : CallGeminiImage(s)
    \/ \E s \in Slots : ImageResolve(s)
    \/ \E s \in Slots : ImageReject(s)
    \/ \E s \in Slots : ImageSave(s)
    \/ \E s \in Slots : ImageSaveReject(s)
    \/ \E s \in Slots : CallUnknown(s)

Spec == Init /\ [][Next]_vars

(***************************** the image tool alone ************************)
\* The gemini-image branch over every kind of argument, on a server that
\* holds no session.
CallGeminiImageWide(s) == \E args \in ImageArgsWide : GeminiImage(s, args)

ImageNext ==
    \/ \E s \in Slots : CallGeminiImageWide(s)
    \/ \E s \in Slots : ImageResolve(s)
    \/ \E s \in Slots : ImageReject(s)
    \/ \E s \in Slots : ImageSave(s)
    \/ \E s \in Slots : ImageSaveReject(s)

ImageSpec == InitEmpty /\ [][ImageNext]_vars

(*************************** the instruction composer **********************)
\* The gemini branch over every kind of instruction field, on a server that
\* holds no session.
CallGeminiWide(s) == \E args \in GeminiArgsWide : Gemini(s, args)

InstructionNext ==
    \/ \E s \in Slots : CallGeminiWide(s)
    \/ \E s \in Slots : GeminiResolve(s)
    \/ \E s \in Slots : GeminiReject(s)

InstructionSpec == InitEmpty /\ [][InstructionNext]_vars

(************************* the clock between two reads *********************)
\* The conversation tools with a clock that may advance by a millisecond
\* between two Date.now() reads of one synchronous stretch.
ClockDrifts == {0, 1}

GeminiResolveDrift(s) == GeminiResolved(s, ClockDrifts)

DriftInit == InitEmpty \/ InitSeeded

DriftNext ==
    \/ Tick
    \/ \E s \in Slots : CallGemini(s)
    \/ \E s \in Slots : GeminiResolveDrift(s)
    \/ \E s \in Slots : GeminiReject(s)
    \/ \E s \in Slots : CallGeminiReply(s)
    \/ \E s \in Slots : ReplyResolve(s)
    \/ \E s \in Slots : ReplyReject(s)

DriftSpec == DriftInit /\ [][DriftNext]_vars


(***************************************************************************)
(* Properties                                                              *)
(***************************************************************************)
\* The stored session of an id, before and after a step.
Stored(id) == heap[sessions[id]]
StoredNext(id) == heap'[sessions'[id]]

\* Turn i of a history is a (role, text) pair.
IsTurn(entry, role, text) ==
    entry.role = role /\ Len(entry.parts) = 1 /\ entry.parts[1].text = text

\* The history consists of complete (user, model) pairs.
CompletePairs(history) ==
    /\ Len(history) % 2 = 0
    /\ \A i \in 1..Len(history) :
        history[i].role = (IF i % 2 = 1 THEN "user" ELSE "model")

\* The text of a response's first content block.
ResponseText(r) == r.content[1].text

\* The steps of the handler, told from the event of the step.
BeginStep == ev'.kind \in {"begin", "whole"}
EndStep(name, settled) == ev'.kind = "end" /\ ev'.name = name /\ ev'.settled = settled
IsFailure(r) ==
    /\ r.isError
    /\ \E m \in {<<"quota exceeded">>, <<"network down">>} :
        ResponseText(r) = <<"Gemini API error: ">> \o m

\* C1: in every reachable state every session in the store has a history of
\* even length made of complete user/model pairs, whatever operations ran and
\* whether or not their remote calls failed.
C1_EvenHistory ==
    \A id \in DOMAIN sessions :
        /\ Len(Stored(id).history) >= 2
        /\ CompletePairs(Stored(id).history)

\* A failed remote call has just been reported while a session of two pairs is stored.
C1_Witness ==
    /\ out.isError /\ ev.kind = "end" /\ ev.settled = "rejected"
    /\ \E id \in DOMAIN sessions : Len(Stored(id).history) = 4

\* C2: a gemini-reply on an id that is not in the store after the opening
\* sweep returns isError = true, makes no remote call, creates no session and
\* leaves every session that survives the sweep unchanged.
C2_ReplyNotFound ==
    [][(/\ BeginStep
        /\ ev'.name = <<"gemini-reply">>
        /\ \/ ev'.conversationId \notin DOMAIN sessions
           \/ Stored(ev'.conversationId).lastUsed < now - OneHour)
       =>
       (/\ ev'.kind = "whole"
        /\ out'.isError
        /\ Len(out'.content) = 1
        /\ sent' = NoRequest
        /\ calls' = calls
        /\ DOMAIN sessions' \subseteq DOMAIN sessions
        /\ ev'.conversationId \notin DOMAIN sessions'
        /\ \A id \in DOMAIN sessions' : StoredNext(id) = Stored(id))]_vars

\* The not-found error was just returned for an id that had been issued, while
\* another session is stored.
C2_Witness ==
    /\ ev.kind = "whole" /\ ev.name = <<"gemini-reply">>
    /\ ev.conversationId \in issued
    /\ out.isError
    /\ sessions # <<>>

\* C3 as stated: when the remote call of a gemini invocation fails, the ids in
\* the store are those just after that invocation's opening sweep.
C3_Original ==
    [][EndStep(<<"gemini">>, "rejected")
       => DOMAIN sessions' = ghost[ev'.slot].idsAtSweep]_vars

\* C3, amended: when the remote call of a gemini invocation fails, the
\* invocation returns an error-flagged response with the failure message and
\* adds no session: the failure leaves the store as it found it, and the ids
\* are those just after the invocation's opening sweep when no other
\* invocation overlapped it.
C3_GeminiFailure ==
    [][EndStep(<<"gemini">>, "rejected")
       =>
       (/\ IsFailure(out')
        /\ out'.conversationId = NoId
        /\ sessions' = sessions
        /\ \A id \in DOMAIN sessions : StoredNext(id) = Stored(id)
        /\ issued' = issued
        /\ (~ev'.overlapped => DOMAIN sessions' = ghost[ev'.slot].idsAtSweep))]_vars

\* A gemini invocation that nothing overlapped has just failed, a session being stored.
C3_Witness ==
    /\ ev.kind = "end" /\ ev.name = <<"gemini">> /\ ~ev.overlapped
    /\ ev.settled = "rejected" /\ out.isError
    /\ sessions # <<>>

\* C4: a successful gemini with prompt p and reply text t stores a session
\* whose history is exactly <<(user, p), (model, t)>> under the conversationId
\* the response carries, and a gemini-reply sweeping at that moment keeps it.
C4_GeminiSuccess ==
    [][EndStep(<<"gemini">>, "resolved")
       =>
       (/\ ~out'.isError
        /\ out'.conversationId # NoId
        /\ out'.conversationId \in DOMAIN sessions'
        /\ LET history == StoredNext(out'.conversationId).history
           IN  /\ Len(history) = 2
               /\ IsTurn(history[1], "user", ev'.prompt)
               /\ IsTurn(history[2], "model", ResponseText(out'))
        /\ StoredNext(out'.conversationId).lastUsed >= now' - OneHour)]_vars

\* A gemini call has just succeeded with a non-empty reply.
C4_Witness ==
    /\ ev.kind = "end" /\ ev.name = <<"gemini">>
    /\ ev.settled = "resolved" /\ ~out.isError
    /\ ResponseText(out) = <<"hi">>
    /\ out.conversationId \in DOMAIN sessions

\* C5: a successful gemini-reply that overlaps no other invocation replaces
\* the stored history h by h followed by (user, prompt), (model, reply text).
C5_ReplyAppends ==
    [][EndStep(<<"gemini-reply">>, "resolved") /\ ~ev'.overlapped
       =>
       (/\ ev'.conversationId \in DOMAIN sessions
        /\ ev'.conversationId \in DOMAIN sessions'
        /\ LET old == Stored(ev'.conversationId).history
               new == StoredNext(ev'.conversationId).history
           IN  /\ Len(new) = Len(old) + 2
               /\ SubSeq(new, 1, Len(old)) = old
               /\ IsTurn(new[Len(old) + 1], "user", ev'.prompt)
               /\ IsTurn(new[Len(old) + 2], "model", ResponseText(out')))]_vars

\* A gemini-reply that nothing overlapped has just succeeded.
C5_Witness ==
    /\ ev.kind = "end" /\ ev.name = <<"gemini-reply">> /\ ~ev.overlapped
    /\ ev.settled = "resolved" /\ ~out.isError
    /\ ev.conversationId \in DOMAIN sessions
    /\ Len(Stored(ev.conversationId).history) >= 4

\* The history a successful gemini followed by successful replies should leave:
\* the prompts and replies in call order.
RECURSIVE TurnsOf(_)
TurnsOf(turns) ==
    IF turns = <<>> THEN <<>>
    ELSE <<[role |-> "user", parts |-> <<[text |-> Head(turns)[1]]>>],
           [role |-> "model", parts |-> <<[text |-> Head(turns)[2]]>>]>>
         \o TurnsOf(Tail(turns))

\* C6: after a successful gemini followed, one call after the other and within
\* the retention window, by k successful gemini-reply calls on the returned id,
\* the stored history has 2 + 2k entries, alternating user and model from
\* user, with the prompts and replies in call order.
C6_HistoryOfChain ==
    /\ DOMAIN chain = DOMAIN sessions
    /\ \A id \in DOMAIN sessions :
        chain[id].inOrder =>
            /\ Len(Stored(id).history) = 2 + 2 * (Len(chain[id].turns) - 1)
            /\ CompletePairs(Stored(id).history)
            /\ Stored(id).history = TurnsOf(chain[id].turns)

\* A gemini and two replies after it, with different prompts, have succeeded.
C6_Witness ==
    \E id \in DOMAIN sessions :
        /\ chain[id].inOrder
        /\ Len(chain[id].turns) = 3
        /\ chain[id].turns[2][1] # chain[id].turns[3][1]

\* C7: a sweep at clock value `now` never removes a session whose lastUsed is
\* at least now - 1 hour, and leaves its history, createdAt, lastUsed and cwd
\* as they were.
C7_SweepKeepsRecent ==
    [][BeginStep =>
        \A id \in DOMAIN sessions :
            Stored(id).lastUsed >= now - OneHour
            => /\ id \in DOMAIN sessions'
               /\ StoredNext(id).history = Stored(id).history
               /\ StoredNext(id).createdAt = Stored(id).createdAt
               /\ StoredNext(id).lastUsed = Stored(id).lastUsed
               /\ StoredNext(id).cwd = Stored(id).cwd]_vars

\* A sweep has just removed an issued id and kept a session used exactly one hour ago.
C7_Witness ==
    /\ ev.kind \in {"begin", "whole"}
    /\ \E id \in issued : id \notin DOMAIN sessions
    /\ \E id \in DOMAIN sessions : Stored(id).lastUsed = now - OneHour

\* C8: every invocation, whatever its tool name, sweeps once, as its first
\* step: right after it begins no stored session has lastUsed < now - 1 hour,
\* no later step of an invocation removes a session, and a gemini-reply to a
\* session idle for more than an hour gets the not-found error, makes no remote
\* call and leaves the session out of the store.
C8_SweepFirst ==
    [][/\ BeginStep => \A id \in DOMAIN sessions' : StoredNext(id).lastUsed >= now' - OneHour
       /\ ~BeginStep => DOMAIN sessions \subseteq DOMAIN sessions'
       /\ (/\ BeginStep
           /\ ev'.name = <<"gemini-reply">>
           /\ ev'.conversationId \in DOMAIN sessions
           /\ Stored(ev'.conversationId).lastUsed < now - OneHour)
          => (/\ ev'.kind = "whole"
              /\ out' = [content |-> <<[type |-> "text",
                            text |-> <<"Error: Conversation ">> \o ev'.conversationId
                               \o <<" not found. It may have expired or never existed.">>,
                            data |-> Undefined, mimeType |-> Undefined]>>,
                         isError |-> TRUE, conversationId |-> NoId]
              /\ sent' = NoRequest
              /\ ev'.conversationId \notin DOMAIN sessions')]_vars

\* An invocation of a tool that is not dispatched has just swept an idle session away.
C8_Witness ==
    /\ ev.kind = "whole" /\ ev.name = <<"nope">>
    /\ sessions = <<>>
    /\ issued # {}

\* C9: a successful gemini-reply sets the session's lastUsed to the clock
\* value at which it completes, and no sweep at a time up to one hour after a
\* session's last successful reply removes that session.
C9_ReplyRefreshes ==
    [][/\ (/\ EndStep(<<"gemini-reply">>, "resolved")
           /\ ev'.conversationId \in DOMAIN sessions'
           /\ sessions'[ev'.conversationId] = calls[ev'.slot].session)
          => StoredNext(ev'.conversationId).lastUsed = now'
       /\ \A id \in DOMAIN sessions :
            (chain[id].repliedAt >= 0 /\ id \notin DOMAIN sessions')
            => now' > chain[id].repliedAt + OneHour]_vars

\* A session used at time 0 got a successful reply later, and a sweep exactly
\* one hour after that reply has kept it.
C9_Witness ==
    /\ ev.kind \in {"begin", "whole"}
    /\ \E id \in DOMAIN sessions :
        /\ chain[id].repliedAt > 0
        /\ Stored(id).createdAt = 0
        /\ now = chain[id].repliedAt + OneHour

\* C10 as stated: when the remote call of a gemini-reply fails, the session is
\* exactly what it was before the invocation.
C10_Original ==
    [][EndStep(<<"gemini-reply">>, "rejected")
       => /\ ev'.conversationId \in DOMAIN sessions'
          /\ StoredNext(ev'.conversationId) = ghost[ev'.slot].session0]_vars

\* C10, amended: when the remote call of a gemini-reply fails, the invocation
\* returns an error-flagged response with the failure message, its slot is
\* free again and the other invocations are untouched, and the failure writes
\* nothing: the store and every session are as they were when the failure
\* arrived, which is as they were before the invocation when no other
\* invocation overlapped it.
C10_ReplyFailure ==
    [][EndStep(<<"gemini-reply">>, "rejected")
       =>
       (/\ IsFailure(out')
        /\ calls'[ev'.slot].pc = "idle"
        /\ \A x \in Slots \ {ev'.slot} : calls'[x] = calls[x]
        /\ sessions' = sessions
        /\ \A id \in DOMAIN sessions : StoredNext(id) = Stored(id)
        /\ (~ev'.overlapped =>
                /\ ev'.conversationId \in DOMAIN sessions'
                /\ StoredNext(ev'.conversationId) = ghost[ev'.slot].session0))]_vars

\* A gemini-reply that nothing overlapped has just failed on a stored session.
C10_Witness ==
    /\ ev.kind = "end" /\ ev.name = <<"gemini-reply">> /\ ~ev.overlapped
    /\ ev.settled = "rejected" /\ out.isError
    /\ ev.conversationId \in DOMAIN sessions

\* The tool names the handler dispatches.
Dispatched == {<<"gemini">>, <<"gemini-reply">>, <<"gemini-image">>}
\* The positions an invocation can be suspended at.
Awaits == {"gemini", "reply", "image", "import"}

\* C11: every invocation ends with exactly one response envelope, whose
\* content list is not empty: no step before its last returns anything, its
\* last step returns one response and frees the slot, a failed remote or file
\* system call is answered like any other outcome, and the response has
\* isError = true exactly on the not-found, unknown-tool and caught-failure paths.
C11_OneEnvelope ==
    [][/\ \A s \in Slots : calls'[s].pc \in Awaits \cup {"idle"}
       /\ ev'.kind \in {"begin", "resume"} =>
            /\ out' = NoResponse
            /\ calls'[ev'.slot].pc \in Awaits
       /\ ev'.kind \in {"tick", "none"} => out' = NoResponse /\ calls' = calls
       /\ ev'.kind \in {"whole", "end"} =>
            /\ Len(out'.content) >= 1
            /\ \A i \in 1..Len(out'.content) : out'.content[i].type \in {"text", "image"}
            /\ calls'[ev'.slot].pc = "idle"
            /\ \A x \in Slots \ {ev'.slot} : calls'[x] = calls[x]
            /\ ev'.kind = "whole" =>
                    \/ ev'.name = <<"gemini-reply">> /\ ev'.conversationId \notin DOMAIN sessions'
                    \/ ev'.name \notin Dispatched
            /\ ev'.kind = "end" => ev'.settled \in {"resolved", "rejected"}
            /\ out'.isError <=> (ev'.kind = "whole" \/ ev'.settled = "rejected")]_vars

\* The file system call of a gemini-image has just failed and been answered
\* with an error response while another invocation is pending.
C11_Witness ==
    /\ ev.kind = "end" /\ ev.name = <<"gemini-image">> /\ ev.settled = "rejected"
    /\ out.isError
    /\ \E s \in Slots : calls[s].pc \in Awaits

\* C12: an invocation whose tool name is not dispatched returns an
\* error-flagged response whose text names the tool, makes no remote call and
\* suspends nowhere, and leaves the store as its opening sweep leaves it: the
\* sessions inside the retention window stay, unchanged, and no session is added.
C12_UnknownTool ==
    [][(ev'.kind \in {"begin", "whole", "resume", "end"} /\ ev'.name \notin Dispatched)
       =>
       (/\ ev'.kind = "whole"
        /\ out'.isError
        /\ Len(out'.content) = 1
        /\ ResponseText(out') = <<"Unknown tool: ">> \o ev'.name
        /\ sent' = NoRequest
        /\ calls' = calls
        /\ DOMAIN sessions' = {id \in DOMAIN sessions : Stored(id).lastUsed >= now - OneHour}
        /\ \A id \in DOMAIN sessions' :
              sessions'[id] = sessions[id] /\ StoredNext(id) = Stored(id)
        /\ issued' = issued)]_vars

\* gemini-video-check has just been answered as an unknown tool, a session being stored.
C12_Witness ==
    /\ ev.kind = "whole" /\ ev.name = <<"gemini-video-check">>
    /\ out.isError
    /\ sessions # <<>>

\* A step of an invocation of tool `name` (or of any undispatched tool).
StepOf(name) == ev'.kind \in {"begin", "whole", "resume", "end"} /\ ev'.name = name
StepOfOther == ev'.kind \in {"begin", "whole", "resume", "end"} /\ ev'.name \notin Dispatched
\* The ids whose key, session object or fields the step changes.
Kept(id) ==
    /\ id \in DOMAIN sessions'
    /\ sessions'[id] = sessions[id]
    /\ StoredNext(id) = Stored(id)
\* The step adds no session and changes none; removing is left to the sweep.
NoneAddedOrModified ==
    /\ DOMAIN sessions' \subseteq DOMAIN sessions
    /\ \A id \in DOMAIN sessions' : Kept(id)
\* What the step removes it removes by the sweep that opens an invocation.
RemovedBySweepOnly ==
    IF BeginStep
    THEN \A id \in DOMAIN sessions \ DOMAIN sessions' : Stored(id).lastUsed < now - OneHour
    ELSE DOMAIN sessions \subseteq DOMAIN sessions'

ImageRequested == ev'.kind = "begin" /\ ev'.name = <<"gemini-image">>

\* C14: when gemini-image is invoked without usePro, the request goes to
\* gemini-3-pro-image-preview if and only if the lower-cased prompt contains a
\* PRO_KEYWORDS entry, and to gemini-2.5-flash-image otherwise.
C14_RouterDecides ==
    [][(ImageRequested /\ ev'.args.usePro = {})
       => /\ sent'.model \in {IMAGE_MODEL_PRO, IMAGE_MODEL_FAST}
          /\ sent'.model = IMAGE_MODEL_PRO <=>
                \E k \in 1..Len(PRO_KEYWORDS) :
                    includes(toLowerCase(ev'.args.prompt), PRO_KEYWORDS[k])]_vars

\* C15: an explicit usePro decides the model whatever the prompt: true sends
\* the request to gemini-3-pro-image-preview, false to gemini-2.5-flash-image,
\* and the model named in the response is the one the request went to.
C15_ExplicitUsePro ==
    [][/\ (ImageRequested /\ ev'.args.usePro = {TRUE}) =>
            /\ sent'.model = IMAGE_MODEL_PRO
            /\ calls'[ev'.slot].result.model = IMAGE_MODEL_PRO
       /\ (ImageRequested /\ ev'.args.usePro = {FALSE}) =>
            /\ sent'.model = IMAGE_MODEL_FAST
            /\ calls'[ev'.slot].result.model = IMAGE_MODEL_FAST
       /\ (EndStep(<<"gemini-image">>, "resolved")) =>
            \E n \in {"0", "2"} :
                SubSeq(ResponseText(out'), 1, 4) =
                    <<"Generated ", n, " image(s) using ">> \o calls[ev'.slot].result.model]_vars

\* usePro = false has just sent a prompt that contains a keyword to the fast
\* model, while a request with usePro = true and no keyword is pending on Pro.
C15_Witness ==
    /\ ev.kind = "begin" /\ ev.name = <<"gemini-image">>
    /\ ev.args.usePro = {FALSE}
    /\ shouldUsePro(ev.args.prompt)
    /\ sent.model = IMAGE_MODEL_FAST
    /\ \E s \in Slots \ {ev.slot} :
        /\ calls[s].pc = "image"
        /\ ~shouldUsePro(calls[s].prompt)
        /\ calls[s].result.model = IMAGE_MODEL_PRO

\* C16: whatever numberOfImages is (omitted, 0, negative, 1..4, more than 4),
\* the count sent to the remote image operation is in 1..4, and it is 1 when
\* the argument is omitted.
C16_CountInRange ==
    [][ImageRequested
       => /\ sent'.numberOfImages \in 1..4
          /\ ev'.args.numberOfImages = {} => sent'.numberOfImages = 1]_vars

\* C17: a gemini invoked with a model argument m issues its chat request
\* against model m, and against MODEL when the argument is omitted.
C17_ModelArgument ==
    [][(ev'.kind = "begin" /\ ev'.name = <<"gemini">>)
       => /\ sent'.kind = "chat"
          /\ sent'.model = (IF ev'.args.model = Undefined THEN MODEL ELSE ev'.args.model)]_vars

\* The image bytes the remote returned, in its order.
Returned(list) == IF list = Undefined THEN <<>> ELSE SelectSeq(list, Truthy)

\* C18: a successful gemini-image for which the remote returns N images (N
\* entries that carry image bytes) returns 1 + N blocks and no error flag:
\* first a text block that states N, the model the request went to and the
\* prompt, followed by the saved paths exactly when images were saved, then
\* one image block per returned image, in the remote's order, with that
\* image's bytes and the mime type image/png.
C18_ImageResponse ==
    [][/\ (ev'.kind = "resume" /\ ev'.name = <<"gemini-image">>) =>
            /\ Len(calls'[ev'.slot].result.images) = Len(Returned(ev'.received))
            /\ \A i \in 1..Len(Returned(ev'.received)) :
                  calls'[ev'.slot].result.images[i].base64 = Returned(ev'.received)[i]
            /\ calls'[ev'.slot].result.model = calls[ev'.slot].result.model
       /\ EndStep(<<"gemini-image">>, "resolved") =>
            LET saving == calls[ev'.slot].pc = "import"
                bytes == IF saving
                         THEN [i \in 1..Len(calls[ev'.slot].result.images) |->
                                  calls[ev'.slot].result.images[i].base64]
                         ELSE Returned(ev'.received)
                N == Len(bytes)
                summary == <<"Generated ", ToString(N), " image(s) using ">>
                           \o calls[ev'.slot].result.model
                           \o <<" for prompt: ", "\"">> \o ev'.prompt \o <<"\"">>
                text == ResponseText(out')
            IN  /\ ~out'.isError
                /\ Len(out'.content) = 1 + N
                /\ out'.content[1].type = "text"
                /\ SubSeq(text, 1, Len(summary)) = summary
                /\ IF saving
                   THEN /\ N > 0
                        /\ SubSeq(text, Len(summary) + 1, Len(summary) + 4)
                              = <<"\n", "\n", "Saved to:", "\n">>
                        /\ Len(text) > Len(summary) + 4
                   ELSE text = summary
                /\ \A i \in 1..N :
                      /\ out'.content[i + 1].type = "image"
                      /\ out'.content[i + 1].data = bytes[i]
                      /\ out'.content[i + 1].mimeType = <<"image/png">>]_vars

\* A gemini-image has just returned a summary with saved paths and two image
\* blocks, png1 before png2, the remote having returned an entry without bytes
\* between them.
C18_Witness ==
    /\ ev.kind = "end" /\ ev.name = <<"gemini-image">> /\ ev.settled = "resolved"
    /\ Len(out.content) = 3
    /\ out.content[2].data = <<"png1">> /\ out.content[3].data = <<"png2">>
    /\ \E i \in 1..Len(ResponseText(out)) : ResponseText(out)[i] = "Saved to:"

\* C19: a process started without a credential in its environment exits with
\* a non-zero status before any tool request is served: its only step is the
\* exit, no invocation has begun or begins afterwards, and invocations are
\* handled by a serving process only.
C19_NoCredentialExits ==
    [][/\ (/\ proc.state = "starting"
           /\ ~Truthy(proc.env.GEMINI_API_KEY)
           /\ ~Truthy(proc.env.GOOGLE_API_KEY))
          => (/\ proc'.state = "exited"
              /\ proc'.status # 0
              /\ started' = 0
              /\ out' = NoResponse /\ sent' = NoRequest
              /\ \A s \in Slots : calls'[s].pc = "idle")
       /\ proc.state = "exited" => FALSE
       /\ ev'.kind \in {"begin", "whole", "resume", "end"}
          => proc.state = "serving" /\ proc'.state = "serving"]_vars

\* A process started without a credential has exited with status 1, no
\* invocation having begun.
C19_Witness ==
    /\ proc.state = "exited" /\ proc.status = 1
    /\ started = 0

\* C20: the video tools are dispatched: a gemini-video-generate invocation
\* returns an operation id, and a gemini-video-check invocation polls an
\* operation; neither is answered as an unknown tool.
C20_VideoDispatched ==
    [][(/\ ev'.kind \in {"begin", "whole", "resume", "end"}
        /\ ev'.name \in {<<"gemini-video-generate">>, <<"gemini-video-check">>}
        /\ out' # NoResponse)
       => /\ ~out'.isError
          /\ ResponseText(out') # <<"Unknown tool: ">> \o ev'.name]_vars

\* C21 as stated: no invocation begins while another one is suspended on its
\* remote call.
C21_Original ==
    [][BeginStep => InFlight(calls) = {}]_vars

\* C21, amended: invocations are handled one uninterrupted stretch at a time,
\* not one invocation at a time.  Every step of the handler belongs to one
\* invocation and moves no other; the sweep, the lookup and the remote request
\* of an invocation happen in its first stretch and its session write in its
\* last, with nothing in between on its own account; an invocation may begin
\* while others are suspended on their remote calls, and the store changes
\* between two stretches of an invocation only by stretches of others.
C21_OneStretchAtATime ==
    [][/\ ev'.kind \in {"begin", "whole", "resume", "end"} =>
            /\ ev'.slot \in Slots
            /\ \A x \in Slots \ {ev'.slot} : calls'[x] = calls[x]
            /\ BeginStep => calls[ev'.slot].pc = "idle"
            /\ ev'.kind \in {"resume", "end"} => calls[ev'.slot].pc \in Awaits
            /\ ev'.kind = "resume" => sessions' = sessions /\ heap' = heap
            /\ (BeginStep /\ InFlight(calls) # {}) => ev'.overlapped
       /\ ev'.kind \in {"tick", "none"} =>
            calls' = calls /\ sessions' = sessions /\ heap' = heap]_vars

\* An invocation has just begun, and swept, while another one is suspended on
\* its remote call: two invocations are in progress.
C21_Witness ==
    /\ ev.kind = "begin" /\ ev.overlapped
    /\ \A s \in Slots : calls[s].pc \in Awaits
    /\ \E s \in Slots : calls[s].pc = "reply"

\* The session object the returning gemini-reply holds is the one stored under its id.
Live(s) ==
    /\ calls[s].conversationId \in DOMAIN sessions
    /\ sessions[calls[s].conversationId] = calls[s].session

\* C22: whatever the interleaving of two gemini-reply invocations on one
\* session, an update is never lost: each reply that returns success leaves
\* the stored history two entries longer than it found it, with the history it
\* found as a prefix, so that two successful replies leave it four entries longer.
C22_NoLostUpdate ==
    [][(EndStep(<<"gemini-reply">>, "resolved") /\ Live(ev'.slot))
       => LET before == Stored(ev'.conversationId).history
              after == StoredNext(ev'.conversationId).history
          IN  /\ Len(after) = Len(before) + 2
              /\ SubSeq(after, 1, Len(before)) = before]_vars

\* No gemini has stored another session under the id of the pending gemini-reply.
NotReplaced(s) ==
    calls[s].conversationId \in DOMAIN sessions
        => sessions[calls[s].conversationId] = calls[s].session

\* C23: whenever a gemini-reply returns success for id c, session c is in the
\* store at that moment and its stored history ends with the turn pair of
\* that reply, whatever sweeps other invocations ran while it was pending.
C23_ReplyKeepsSession ==
    [][(EndStep(<<"gemini-reply">>, "resolved") /\ NotReplaced(ev'.slot))
       => /\ ev'.conversationId \in DOMAIN sessions'
          /\ LET after == StoredNext(ev'.conversationId).history
             IN  /\ Len(after) >= 2
                 /\ IsTurn(after[Len(after) - 1], "user", ev'.prompt)
                 /\ IsTurn(after[Len(after)], "model", ResponseText(out'))]_vars

PersonaWithCwd(cwd) ==
    IF cwd # Undefined /\ cwd # EmptyString
    THEN DefaultPersona \o <<"\n", "\n", "Working directory: ">> \o cwd
    ELSE DefaultPersona

\* C25: the cwd of a session object is the cwd argument of the gemini call
\* that created it and never changes while the object exists, and the system
\* instruction every gemini-reply sends is the default persona plus the
\* working-directory line of the stored cwd only: no sandbox, base or
\* developer instructions of the initial call.
C25_CwdOnly ==
    [][/\ \A ref \in DOMAIN heap \cap DOMAIN heap' : heap'[ref].cwd = heap[ref].cwd
       /\ (ev'.kind = "begin" /\ ev'.name = <<"gemini">>)
            => calls'[ev'.slot].cwd = ev'.args.cwd
       /\ EndStep(<<"gemini">>, "resolved")
            => StoredNext(out'.conversationId).cwd = calls[ev'.slot].cwd
       /\ (ev'.kind = "begin" /\ ev'.name = <<"gemini-reply">>)
            => /\ sent'.kind = "chat"
               /\ sent'.systemInstruction = PersonaWithCwd(Stored(ev'.conversationId).cwd)
               /\ StoredNext(ev'.conversationId).cwd = Stored(ev'.conversationId).cwd]_vars

\* A gemini-reply has just sent its request for a session that was created
\* with cwd "/work" (by the gemini call that also gave a sandbox, base and
\* developer instructions): the instruction is the default persona and the
\* working-directory line.
C25_Witness ==
    /\ ev.kind = "begin" /\ ev.name = <<"gemini-reply">>
    /\ ev.conversationId \in DOMAIN sessions
    /\ Stored(ev.conversationId).cwd = <<"/work">>
    /\ sent.systemInstruction =
            DefaultPersona \o <<"\n", "\n", "Working directory: ", "/work">>

\* The configuration a gemini call passes to buildSystemInstruction, and a
\* step on which it does.
ConfigOf(args) ==
    [cwd |-> args.cwd, sandbox |-> args.sandbox,
     baseInstructions |-> args.baseInstructions,
     developerInstructions |-> args.developerInstructions]
Composes == ev'.kind = "begin" /\ ev'.name = <<"gemini">>
Composed == ev.kind = "begin" /\ ev.name = <<"gemini">>

\* C26: with none of cwd, sandbox, base instructions and developer
\* instructions given, the instruction is exactly the default persona.
C26_DefaultOnly ==
    [][(/\ Composes
        /\ ev'.args.cwd = Undefined /\ ev'.args.sandbox = Undefined
        /\ ev'.args.baseInstructions = Undefined
        /\ ev'.args.developerInstructions = Undefined)
       => /\ sent'.kind = "chat"
          /\ sent'.systemInstruction = DefaultPersona]_vars

\* A gemini call without any optional field has just sent the default persona.
C26_Witness ==
    /\ Composed
    /\ ev.args.cwd = Undefined /\ ev.args.sandbox = Undefined
    /\ ev.args.baseInstructions = Undefined
    /\ ev.args.developerInstructions = Undefined
    /\ sent.systemInstruction = DefaultPersona

\* The fixed description of each sandbox value of the schema.
Description(sandbox) ==
    IF sandbox = <<"read-only">>
    THEN <<"You are in read-only mode. You can analyze and review but cannot make changes.">>
    ELSE IF sandbox = <<"workspace-write">>
    THEN <<"You can read and write within the workspace directory.">>
    ELSE <<"You have full access to read and write files.">>

\* The positions of a piece of text in a string.
Positions(text, piece) ==
    {i \in 1..(Len(text) - Len(piece) + 1) : SubSeq(text, i, i + Len(piece) - 1) = piece}

\* C27: with base instructions, cwd, a sandbox value of the schema and
\* developer instructions all given, the instruction is the base instructions
\* (not the default persona), the working-directory line, the access-level
\* description and the developer-instructions block, each exactly once and
\* in that order.
C27_AllFourInOrder ==
    [][(/\ Composes
        /\ Truthy(ev'.args.baseInstructions) /\ Truthy(ev'.args.cwd)
        /\ ev'.args.sandbox \in sandboxKeys
        /\ Truthy(ev'.args.developerInstructions))
       => LET text == sent'.systemInstruction
              base == ev'.args.baseInstructions
              wd   == <<"Working directory: ">> \o ev'.args.cwd
              sb   == <<"Access level: ">> \o Description(ev'.args.sandbox)
              dev  == <<"Developer Instructions:", "\n">> \o ev'.args.developerInstructions
          IN  /\ text = base \o <<"\n", "\n">> \o wd \o <<"\n", "\n">> \o sb
                            \o <<"\n", "\n">> \o dev
              /\ \A piece \in {base, wd, sb, dev} :
                    Cardinality(Positions(text, piece)) = 1
              /\ \A i \in Positions(text, base), j \in Positions(text, wd),
                    k \in Positions(text, sb), l \in Positions(text, dev) :
                    i < j /\ j < k /\ k < l
              /\ Positions(text, DefaultPersona) = {}]_vars

\* A gemini call with all four fields has just sent its instruction, which
\* ends with the developer instructions and starts with the base instructions.
C27_Witness ==
    /\ Composed
    /\ ev.args.baseInstructions = <<"Be brief.">> /\ ev.args.cwd = <<"/work">>
    /\ ev.args.sandbox = <<"workspace-write">>
    /\ ev.args.developerInstructions = <<"Use tabs.">>
    /\ Head(sent.systemInstruction) = "Be brief."
    /\ sent.systemInstruction[Len(sent.systemInstruction)] = "Use tabs."

\* C28 as stated: a sandbox value other than the three of the schema gives
\* the instruction of the same configuration without sandbox; each of the
\* three appends its fixed description (after the working-directory line,
\* before the developer instructions).
C28_UnrecognizedDropped ==
    [][Composes
       => LET config == ConfigOf(ev'.args)
              text == sent'.systemInstruction
          IN  IF config.sandbox \in sandboxKeys
              THEN text =
                    buildSystemInstruction([config EXCEPT !.sandbox = Undefined,
                                                   !.developerInstructions = Undefined])
                    \o <<"\n", "\n", "Access level: ">> \o Description(config.sandbox)
                    \o (IF Truthy(config.developerInstructions)
                        THEN <<"\n", "\n", "Developer Instructions:", "\n">>
                                \o config.developerInstructions
                        ELSE <<>>)
              ELSE text = buildSystemInstruction([config EXCEPT !.sandbox = Undefined])]_vars

\* C29: sessions are isolated.  The request a gemini-reply on id c sends is
\* determined by the prompt and the session stored under c alone (its
\* history, in full and nothing else, and its cwd), so runs that differ only
\* in other sessions send the same request; a gemini call sends an empty
\* history; and no step of a gemini-reply changes a field of a session object
\* other than the one it found under c.
C29_Isolation ==
    [][/\ (ev'.kind = "begin" /\ ev'.name = <<"gemini-reply">>)
            => /\ ev'.conversationId \in DOMAIN sessions
               /\ sent' = [kind |-> "chat", model |-> MODEL,
                           systemInstruction |->
                                PersonaWithCwd(Stored(ev'.conversationId).cwd),
                           history |-> Stored(ev'.conversationId).history,
                           message |-> ev'.prompt]
               /\ calls'[ev'.slot].session = sessions[ev'.conversationId]
       /\ (ev'.kind = "begin" /\ ev'.name = <<"gemini">>)
            => sent'.kind = "chat" /\ sent'.history = <<>>
       /\ (ev'.kind \in {"begin", "whole", "end"} /\ ev'.name = <<"gemini-reply">>)
            => /\ \A ref \in (DOMAIN heap \cap DOMAIN heap') :
                    (ev'.kind # "end" \/ ref # calls[ev'.slot].session)
                        => heap'[ref] = heap[ref]
               /\ \A id \in (DOMAIN sessions \cap DOMAIN sessions') :
                    sessions'[id] = sessions[id]
               /\ DOMAIN sessions' \subseteq DOMAIN sessions]_vars

\* A gemini-reply has just succeeded on one of two stored sessions: its
\* session holds four turns, the other session still holds the two turns of
\* a different conversation.
C29_Witness ==
    /\ ev.kind = "end" /\ ev.name = <<"gemini-reply">> /\ ev.settled = "resolved"
    /\ Cardinality(DOMAIN sessions) = 2
    /\ ev.conversationId \in DOMAIN sessions
    /\ Len(Stored(ev.conversationId).history) = 4
    /\ \E other \in DOMAIN sessions \ {ev.conversationId} :
            /\ Len(Stored(other).history) = 2
            /\ Stored(other).history[1] # Stored(ev.conversationId).history[1]

\* C30 as stated: every stored session has createdAt <= lastUsed, the two are
\* equal right after the gemini call that created the session, createdAt of a
\* session object never changes and its lastUsed never decreases.
C30_Timestamps ==
    [][/\ \A id \in DOMAIN sessions' :
            StoredNext(id).createdAt <= StoredNext(id).lastUsed
       /\ EndStep(<<"gemini">>, "resolved")
            => StoredNext(out'.conversationId).createdAt
                    = StoredNext(out'.conversationId).lastUsed
       /\ \A ref \in DOMAIN heap \cap DOMAIN heap' :
            /\ heap'[ref].createdAt = heap[ref].createdAt
            /\ heap'[ref].lastUsed >= heap[ref].lastUsed]_vars

====
